---------------------------- MODULE Spec2Model ----------------------------
(***************************************************************************)
(* A model of src/src/lib.rs: the LegacyTransaction builder, its            *)
(* serialize / try_from pair, the little-endian read helpers and the        *)
(* command-line parser.                                                     *)
(*                                                                          *)
(* Number representations (TLC integers are 32-bit signed):                 *)
(*   i32    a TLC integer (the ranges coincide);                            *)
(*   u32    a record [hi, lo] of two 16-bit limbs, value hi * 65536 + lo;   *)
(*   u64    (TxOutput.value) a small natural number, never encoded by the   *)
(*          code; a parsed command-line amount is its canonical decimal     *)
(*          digit sequence, so that the u64 range check stays exact;        *)
(*   usize  an integer n, where n < 0 stands for 2^64 + n (the residue of   *)
(*          the value in the signed window), so offset + 4 wraps exactly    *)
(*          when n < 0 and n + 4 >= 0.                                      *)
(***************************************************************************)
EXTENDS Integers, Sequences, FiniteSets, TLC

VARIABLES
    builder,    \* the LegacyTransactionBuilder being filled, or None once consumed
    calls,      \* history: the builder calls made so far, in call order
    tx,         \* a LegacyTransaction (built, or drawn as an input), or None
    wire,       \* the Vec<u8> returned by serialize, or None
    data,       \* the &[u8] handed to try_from / read_*_le
    how,        \* where data came from: "none", "raw", "prefix", "full", "appended"
    alloc,      \* whether the allocator grants a non-empty reservation
    dec,        \* the Result of try_from, or None
    prev,       \* the buffer and Result of the previous try_from, or None
    offset,     \* the offset handed to read_*_le
    overflow_checks, \* whether the build traps on integer overflow
    ru32,       \* the Result of read_u32_le, or None
    ri32,       \* the Result of read_i32_le, or None
    args,       \* the &[String] handed to parse_cli_args
    cmd         \* the Result of parse_cli_args, or None

vars == <<builder, calls, tx, wire, data, how, alloc, dec, prev, offset,
          overflow_checks, ru32, ri32, args, cmd>>

None == [tag |-> "None"]

----------------------------------------------------------------------------
(* Bounds of the model *)

MaxCalls == 4       \* builder calls before build()
MaxItems == 2       \* inputs / outputs of a transaction drawn as an input
MaxWords == 5       \* 4-byte words of a raw buffer
MaxTail == 2        \* bytes of a raw buffer after its last whole word
MaxOffset == 6      \* largest in-range offset handed to read_*_le
MaxArgs == 3        \* command-line arguments

----------------------------------------------------------------------------
(* Fixed-width integers *)

U32(h, l) == [hi |-> h, lo |-> l]

\* u32::from_le_bytes
u32_from_le_bytes(b) == U32(b[3] + 256 * b[4], b[1] + 256 * b[2])

\* u32::to_le_bytes
u32_to_le_bytes(v) == <<v.lo % 256, v.lo \div 256, v.hi % 256, v.hi \div 256>>

\* i32::from_le_bytes (two's complement)
i32_from_le_bytes(b) ==
    b[1] + 256 * b[2] + 65536 * b[3]
        + 16777216 * (IF b[4] >= 128 THEN b[4] - 256 ELSE b[4])

\* i32::to_le_bytes (two's complement; \div rounds down, % is non-negative)
i32_to_le_bytes(v) ==
    <<v % 256, (v \div 256) % 256, (v \div 65536) % 256, (v \div 16777216) % 256>>

Ok(v) == [tag |-> "Ok", val |-> v]
Err(e) == [tag |-> "Err", err |-> e]
Panic == [tag |-> "Panic"]
Abort == [tag |-> "Abort"]


----------------------------------------------------------------------------
(* usize arithmetic: n < 0 stands for 2^64 + n *)

\* offset + n for a small n >= 0: the wrapped sum, and whether it overflowed
usize_add(a, n) == [sum |-> a + n, overflow |-> a < 0 /\ a + n >= 0]

\* a > len as unsigned numbers, for a length 0 <= len < 2^63
usize_gt(a, len) == a < 0 \/ a > len

----------------------------------------------------------------------------
(* The read helpers *)

\* read_u32_le as it would be if it checked `offset + 3 > data.len()`.
read_u32_le_off_by_one(d, off) ==
    LET end == usize_add(off, 3)
    IN  IF end.overflow /\ overflow_checks THEN Panic
        ELSE IF usize_gt(end.sum, Len(d)) THEN Err("InvalidTransaction")
        ELSE IF \A i \in 0..3 : 0 <= off + i /\ off + i < Len(d)
             THEN Ok(u32_from_le_bytes(SubSeq(d, off + 1, off + 4)))
             ELSE Panic

\* lib.rs 208-218. data[i] panics when i is out of bounds.
read_u32_le(d, off) ==
    LET end == usize_add(off, 4)
    IN  IF end.overflow /\ overflow_checks THEN Panic
        ELSE IF usize_gt(end.sum, Len(d)) THEN Err("InvalidTransaction")
        ELSE IF \A i \in 0..3 : 0 <= off + i /\ off + i < Len(d)
             THEN Ok(u32_from_le_bytes(SubSeq(d, off + 1, off + 4)))
             ELSE Panic

\* lib.rs 221-231
read_i32_le(d, off) ==
    LET end == usize_add(off, 4)
    IN  IF end.overflow /\ overflow_checks THEN Panic
        ELSE IF usize_gt(end.sum, Len(d)) THEN Err("InvalidTransaction")
        ELSE IF \A i \in 0..3 : 0 <= off + i /\ off + i < Len(d)
             THEN Ok(i32_from_le_bytes(SubSeq(d, off + 1, off + 4)))
             ELSE Panic

----------------------------------------------------------------------------
(* LegacyTransaction: decoding and serialization *)

LegacyTransaction(v, ins, outs, lt) ==
    [version |-> v, inputs |-> ins, outputs |-> outs, lock_time |-> lt]

\* Vec::reserve_exact(n) on an empty Vec of a sized element type: nothing is
\* allocated for n = 0; otherwise the allocator grants the request or the
\* process aborts (handle_alloc_error) or panics (capacity overflow).
reserve_exact(n, al) ==
    IF n = U32(0, 0) \/ al = "granted" THEN "reserved" ELSE "aborted"

\* try_from as it would be if it required only the version and filled the
\* fields it cannot read with zero.
try_from_zero_fill(d, al) ==
    IF Len(d) < 4 THEN Err("InvalidTransaction")
    ELSE
    LET version == read_i32_le(d, 0)
        lock_time_ == read_u32_le(d, 12)
    IN  Ok(LegacyTransaction(version.val, <<>>, <<>>,
                             IF lock_time_.tag = "Ok" THEN lock_time_.val ELSE U32(0, 0)))

\* try_from as it would be if it read lock_time at offset 8.
try_from_lock_time_at_8(d, al) ==
    IF Len(d) < 16 THEN Err("InvalidTransaction")
    ELSE
    LET version == read_i32_le(d, 0)
        inputs_count == read_u32_le(d, 4)
        outputs_count == read_u32_le(d, 8)
        lock_time_ == read_u32_le(d, 8)
    IN  IF reserve_exact(inputs_count.val, al) # "reserved" THEN Abort
        ELSE IF reserve_exact(outputs_count.val, al) # "reserved" THEN Abort
        ELSE Ok(LegacyTransaction(version.val, <<>>, <<>>, lock_time_.val))

\* lib.rs 179-205. Each `?` returns the helper's failure at once.
try_from(d, al) ==
    IF Len(d) < 16 THEN Err("InvalidTransaction")
    ELSE
    LET version == read_i32_le(d, 0)
        inputs_count == read_u32_le(d, 4)
        outputs_count == read_u32_le(d, 8)
        lock_time_ == read_u32_le(d, 12)
    IN  IF version.tag # "Ok" THEN version
        ELSE IF inputs_count.tag # "Ok" THEN inputs_count
        ELSE IF outputs_count.tag # "Ok" THEN outputs_count
        ELSE IF lock_time_.tag # "Ok" THEN lock_time_
        ELSE IF reserve_exact(inputs_count.val, al) # "reserved" THEN Abort
        ELSE IF reserve_exact(outputs_count.val, al) # "reserved" THEN Abort
        ELSE Ok(LegacyTransaction(version.val, <<>>, <<>>, lock_time_.val))

\* lib.rs 235-242
serialize(t) == i32_to_le_bytes(t.version) \o u32_to_le_bytes(t.lock_time)

----------------------------------------------------------------------------
(* LegacyTransactionBuilder *)

\* lib.rs 89-96 (Vec capacities are not observable in the value)
default == [version |-> 1, inputs |-> <<>>, outputs |-> <<>>, lock_time |-> U32(0, 0)]

\* lib.rs 100
new == default

\* lib.rs 102-105
version(b, v) == [b EXCEPT !.version = v]

\* add_input as it would be if it put the input first.
add_input_first(b, input) == [b EXCEPT !.inputs = <<input>> \o @]

\* lib.rs 107-110
add_input(b, input) == [b EXCEPT !.inputs = Append(@, input)]

\* lib.rs 112-115
add_output(b, output) == [b EXCEPT !.outputs = Append(@, output)]

\* lib.rs 117-120
lock_time(b, lt) == [b EXCEPT !.lock_time = lt]

\* lib.rs 122-129
build(b) == LegacyTransaction(b.version, b.inputs, b.outputs, b.lock_time)

----------------------------------------------------------------------------
(* Inputs of the model *)

Txid(b) == [i \in 1..32 |-> b]

OutPoint(txid, vout) == [txid |-> txid, vout |-> vout]

TxInput(po, sig, seq) == [previous_output |-> po, script_sig |-> sig, sequence |-> seq]

TxOutput(value, spk) == [value |-> value, script_pubkey |-> spk]

VersionSamples == {2, -1}

LockTimeSamples == {U32(7, 41248), U32(65535, 65535)}

InputSamples ==
    { TxInput(OutPoint(Txid(0), U32(0, 0)), <<>>, U32(65535, 65535)),
      TxInput(OutPoint(Txid(171), U32(0, 1)), <<118, 169>>, U32(0, 0)) }

OutputSamples == { TxOutput(0, <<>>), TxOutput(50000, <<118, 169, 20>>) }

AllocOutcomes == {"granted", "refused"}

----------------------------------------------------------------------------
(* Specification Spec: one builder's life, from new() to the decoding of   *)
(* what the built transaction serializes to.                                *)

Init ==
    /\ builder = new
    /\ calls = <<>>
    /\ tx = None
    /\ wire = None
    /\ data = <<>>
    /\ how = "none"
    /\ alloc \in AllocOutcomes
    /\ dec = None
    /\ prev = None
    /\ offset = 0
    /\ overflow_checks \in BOOLEAN
    /\ ru32 = None
    /\ ri32 = None
    /\ args = <<>>
    /\ cmd = None

Filling == builder # None /\ Len(calls) < MaxCalls

Version ==
    /\ Filling
    /\ \E v \in VersionSamples :
        /\ builder' = version(builder, v)
        /\ calls' = Append(calls, [op |-> "version", arg |-> v])
    /\ UNCHANGED <<tx, wire, data, how, alloc, dec, prev, offset,
                   overflow_checks, ru32, ri32, args, cmd>>

AddInput ==
    /\ Filling
    /\ \E i \in InputSamples :
        /\ builder' = add_input(builder, i)
        /\ calls' = Append(calls, [op |-> "add_input", arg |-> i])
    /\ UNCHANGED <<tx, wire, data, how, alloc, dec, prev, offset,
                   overflow_checks, ru32, ri32, args, cmd>>

AddOutput ==
    /\ Filling
    /\ \E o \in OutputSamples :
        /\ builder' = add_output(builder, o)
        /\ calls' = Append(calls, [op |-> "add_output", arg |-> o])
    /\ UNCHANGED <<tx, wire, data, how, alloc, dec, prev, offset,
                   overflow_checks, ru32, ri32, args, cmd>>

LockTime ==
    /\ Filling
    /\ \E lt \in LockTimeSamples :
        /\ builder' = lock_time(builder, lt)
        /\ calls' = Append(calls, [op |-> "lock_time", arg |-> lt])
    /\ UNCHANGED <<tx, wire, data, how, alloc, dec, prev, offset,
                   overflow_checks, ru32, ri32, args, cmd>>

\* build(self) consumes the builder
Build ==
    /\ builder # None
    /\ tx' = build(builder)
    /\ builder' = None
    /\ UNCHANGED <<calls, wire, data, how, alloc, dec, prev, offset,
                   overflow_checks, ru32, ri32, args, cmd>>

Serialize ==
    /\ tx # None
    /\ wire = None
    /\ wire' = serialize(tx)
    /\ UNCHANGED <<builder, calls, tx, data, how, alloc, dec, prev, offset,
                   overflow_checks, ru32, ri32, args, cmd>>

\* LegacyTransaction::try_from(&wire[..])
Decode ==
    /\ wire # None
    /\ dec = None
    /\ data' = wire
    /\ how' = "full"
    /\ dec' = try_from(wire, alloc)
    /\ UNCHANGED <<builder, calls, tx, wire, alloc, prev, offset,
                   overflow_checks, ru32, ri32, args, cmd>>

Next == Version \/ AddInput \/ AddOutput \/ LockTime \/ Build \/ Serialize \/ Decode

Spec == Init /\ [][Next]_vars

----------------------------------------------------------------------------
(* Specification SpecCodec: serialize and try_from as functions. Init draws *)
(* the input, a transaction or a raw buffer; the actions apply them.        *)

RECURSIVE SeqsUpTo(_, _)
\* the sequences over S of length at most n
SeqsUpTo(S, n) ==
    IF n = 0 THEN {<<>>}
    ELSE LET shorter == SeqsUpTo(S, n - 1)
         IN  shorter \cup {Append(q, x) : q \in {r \in shorter : Len(r) = n - 1}, x \in S}

RECURSIVE Concat(_)
Concat(ws) == IF ws = <<>> THEN <<>> ELSE Head(ws) \o Concat(Tail(ws))

WordSamples == {<<0, 0, 0, 0>>, <<1, 0, 0, 0>>, <<255, 255, 255, 255>>}

TailBytes == {0, 255}

Buffers ==
    {Concat(ws) \o t : ws \in SeqsUpTo(WordSamples, MaxWords), t \in SeqsUpTo(TailBytes, MaxTail)}

SampleTxs ==
    {LegacyTransaction(v, ins, outs, lt) :
        v \in VersionSamples \cup {1},
        ins \in SeqsUpTo(InputSamples, MaxItems),
        outs \in SeqsUpTo(OutputSamples, MaxItems),
        lt \in LockTimeSamples \cup {U32(0, 0)}}

InitCodec ==
    /\ builder = None
    /\ calls = <<>>
    /\ tx \in SampleTxs \cup {None}
    /\ data \in IF tx = None THEN Buffers ELSE {<<>>}
    /\ how = IF tx = None THEN "raw" ELSE "none"
    /\ wire = None
    /\ alloc \in AllocOutcomes
    /\ dec = None
    /\ prev = None
    /\ offset = 0
    /\ overflow_checks \in BOOLEAN
    /\ ru32 = None
    /\ ri32 = None
    /\ args = <<>>
    /\ cmd = None

\* &wire[..k]
Truncate ==
    /\ tx # None
    /\ wire # None
    /\ how = "none"
    /\ \E k \in 0..Len(wire) :
        /\ data' = SubSeq(wire, 1, k)
        /\ how' = IF k < Len(wire) THEN "prefix" ELSE "full"
    /\ UNCHANGED <<builder, calls, tx, wire, alloc, dec, prev, offset,
                   overflow_checks, ru32, ri32, args, cmd>>

\* LegacyTransaction::try_from(data)
TryFrom ==
    /\ how # "none"
    /\ dec = None
    /\ dec' = try_from(data, alloc)
    /\ UNCHANGED <<builder, calls, tx, wire, data, how, alloc, prev, offset,
                   overflow_checks, ru32, ri32, args, cmd>>

\* a second try_from, on a buffer that decoded, followed by one more byte
AppendByte ==
    /\ dec.tag = "Ok"
    /\ prev = None
    /\ \E x \in TailBytes :
        /\ data' = Append(data, x)
        /\ dec' = try_from(Append(data, x), alloc)
    /\ prev' = [data |-> data, dec |-> dec]
    /\ how' = "appended"
    /\ UNCHANGED <<builder, calls, tx, wire, alloc, offset,
                   overflow_checks, ru32, ri32, args, cmd>>

\* serialize() of the transaction try_from returned
Reserialize ==
    /\ dec.tag = "Ok"
    /\ wire = None
    /\ wire' = serialize(dec.val)
    /\ UNCHANGED <<builder, calls, tx, data, how, alloc, dec, prev, offset,
                   overflow_checks, ru32, ri32, args, cmd>>

NextCodec == Serialize \/ Truncate \/ TryFrom \/ AppendByte \/ Reserialize

SpecCodec == InitCodec /\ [][NextCodec]_vars

----------------------------------------------------------------------------
(* Specification SpecRead: read_u32_le and read_i32_le as functions of a   *)
(* buffer and an offset, in a build with or without overflow checks.        *)

ReadBytes == {1, 128, 255}

MaxReadLen == 5     \* bytes of a buffer handed to read_*_le
MaxWrap == 5        \* offsets usize::MAX - MaxWrap + 1 .. usize::MAX are drawn

Offsets == (0..MaxOffset) \cup {-n : n \in 1..MaxWrap}

InitRead ==
    /\ builder = None
    /\ calls = <<>>
    /\ tx = None
    /\ wire = None
    /\ data \in SeqsUpTo(ReadBytes, MaxReadLen)
    /\ how = "raw"
    /\ alloc = "granted"
    /\ dec = None
    /\ prev = None
    /\ offset \in Offsets
    /\ overflow_checks \in BOOLEAN
    /\ ru32 = None
    /\ ri32 = None
    /\ args = <<>>
    /\ cmd = None

ReadU32 ==
    /\ ru32 = None
    /\ ru32' = read_u32_le(data, offset)
    /\ UNCHANGED <<builder, calls, tx, wire, data, how, alloc, dec, prev, offset,
                   overflow_checks, ri32, args, cmd>>

ReadI32 ==
    /\ ri32 = None
    /\ ri32' = read_i32_le(data, offset)
    /\ UNCHANGED <<builder, calls, tx, wire, data, how, alloc, dec, prev, offset,
                   overflow_checks, ru32, args, cmd>>

NextRead == ReadU32 \/ ReadI32

SpecRead == InitRead /\ [][NextRead]_vars

----------------------------------------------------------------------------
(* parse_cli_args. A String is a sequence of one-character strings.         *)

Digits == {"0", "1", "2", "3", "4", "5", "6", "7", "8", "9"}

DigitValue(c) ==
    CASE c = "0" -> 0 [] c = "1" -> 1 [] c = "2" -> 2 [] c = "3" -> 3 [] c = "4" -> 4
      [] c = "5" -> 5 [] c = "6" -> 6 [] c = "7" -> 7 [] c = "8" -> 8 [] c = "9" -> 9

RECURSIVE StripZeros(_)
\* a digit sequence without its leading zeros (<<0>> for zero)
StripZeros(ds) ==
    IF Len(ds) > 1 /\ ds[1] = 0 THEN StripZeros(Tail(ds)) ELSE ds

RECURSIVE DigitsLeq(_, _)
\* a <= b for digit sequences of the same length
DigitsLeq(a, b) ==
    IF a = <<>> THEN TRUE
    ELSE IF a[1] # b[1] THEN a[1] < b[1]
    ELSE DigitsLeq(Tail(a), Tail(b))

\* u64::MAX, 18446744073709551615
U64MaxDigits == <<1, 8, 4, 4, 6, 7, 4, 4, 0, 7, 3, 7, 0, 9, 5, 5, 1, 6, 1, 5>>

\* str::parse::<u64>: an optional '+', then one or more decimal digits, the
\* value at most u64::MAX. The value is returned as its decimal digits.
parse_u64(str) ==
    LET body == IF str # <<>> /\ str[1] = "+" THEN Tail(str) ELSE str
        value == StripZeros([k \in 1..Len(body) |-> DigitValue(body[k])])
    IN  IF str = <<>> THEN Err("Empty")
        ELSE IF body = <<>> \/ \E k \in 1..Len(body) : body[k] \notin Digits
             THEN Err("InvalidDigit")
        ELSE IF \/ Len(value) > Len(U64MaxDigits)
                \/ Len(value) = Len(U64MaxDigits) /\ ~DigitsLeq(value, U64MaxDigits)
             THEN Err("PosOverflow")
        ELSE Ok(value)

BALANCE == <<"b", "a", "l", "a", "n", "c", "e">>

SEND == <<"s", "e", "n", "d">>

ParseError(detail) == [kind |-> "ParseError", detail |-> detail]

Balance == [command |-> "Balance"]

Send(amount, address) == [command |-> "Send", amount |-> amount, address |-> address]

\* parse_cli_args as it would be if the balance arm matched [cmd, ..].
parse_cli_args_balance_any(a) ==
    IF a = <<>> THEN Err(ParseError(<<"No command provided">>))
    ELSE IF a[1] = BALANCE THEN Ok(Balance)
    ELSE IF Len(a) = 3 /\ a[1] = SEND
         THEN LET amount == parse_u64(a[2])
              IN  IF amount.tag # "Ok" THEN Err(ParseError(<<"Invalid amount format">>))
                  ELSE Ok(Send(amount.val, a[3]))
    ELSE Err(ParseError(<<"Unknown command: ", a[1]>>))

\* lib.rs 153-168: the match arms in order
parse_cli_args(a) ==
    IF a = <<>> THEN Err(ParseError(<<"No command provided">>))
    ELSE IF Len(a) = 1 /\ a[1] = BALANCE THEN Ok(Balance)
    ELSE IF Len(a) = 3 /\ a[1] = SEND
         THEN LET amount == parse_u64(a[2])
              IN  IF amount.tag # "Ok" THEN Err(ParseError(<<"Invalid amount format">>))
                  ELSE Ok(Send(amount.val, a[3]))
    ELSE Err(ParseError(<<"Unknown command: ", a[1]>>))

StrSamples ==
    { BALANCE, SEND, <<>>,
      <<"4", "2">>, <<"+", "7">>, <<"-", "1">>, <<"0", "0", "7">>, <<"1", "x">>, <<"+">>,
      <<"1", "8", "4", "4", "6", "7", "4", "4", "0", "7", "3", "7", "0", "9", "5", "5",
        "1", "6", "1", "5">>,
      <<"1", "8", "4", "4", "6", "7", "4", "4", "0", "7", "3", "7", "0", "9", "5", "5",
        "1", "6", "1", "6">>,
      <<"b", "c", "1", "q">> }

InitCli ==
    /\ builder = None
    /\ calls = <<>>
    /\ tx = None
    /\ wire = None
    /\ data = <<>>
    /\ how = "none"
    /\ alloc = "granted"
    /\ dec = None
    /\ prev = None
    /\ offset = 0
    /\ overflow_checks \in BOOLEAN
    /\ ru32 = None
    /\ ri32 = None
    /\ args \in SeqsUpTo(StrSamples, MaxArgs)
    /\ cmd = None

ParseCliArgs ==
    /\ cmd = None
    /\ cmd' = parse_cli_args(args)
    /\ UNCHANGED <<builder, calls, tx, wire, data, how, alloc, dec, prev, offset,
                   overflow_checks, ru32, ri32, args>>

NextCli == ParseCliArgs

SpecCli == InitCli /\ [][NextCli]_vars

----------------------------------------------------------------------------
(* Claims about the builder and the round trip (specification Spec)        *)

RECURSIVE LastArg(_, _, _)
\* the argument of the last call of op in the log, dflt when there is none
LastArg(log, op, dflt) ==
    IF log = <<>> THEN dflt
    ELSE IF log[Len(log)].op = op THEN log[Len(log)].arg
    ELSE LastArg(SubSeq(log, 1, Len(log) - 1), op, dflt)

RECURSIVE ArgsOf(_, _)
\* the arguments of the calls of op in the log, in call order
ArgsOf(log, op) ==
    IF log = <<>> THEN <<>>
    ELSE IF Head(log).op = op THEN <<Head(log).arg>> \o ArgsOf(Tail(log), op)
    ELSE ArgsOf(Tail(log), op)

Called(log) ==
    LegacyTransaction(LastArg(log, "version", 1), ArgsOf(log, "add_input"),
                      ArgsOf(log, "add_output"), LastArg(log, "lock_time", U32(0, 0)))

\* C9: after any sequence of builder calls from new(), the builder holds, and
\* build() returns, the version of the last version() call (1 if none), the
\* lock_time of the last lock_time() call (0 if none), the add_input arguments
\* in call order and the add_output arguments in call order; so no call
\* changes a field other than its own.
C9_BuilderAccumulates ==
    /\ builder # None => build(builder) = Called(calls)
    /\ tx # None => tx = Called(calls)

C9_Witness ==
    /\ tx # None
    /\ Len(tx.inputs) = 2
    /\ tx.inputs[1] # tx.inputs[2]
    /\ Len(tx.outputs) = 1
    /\ tx.version = -1
    /\ calls[1].op = "add_input"
    /\ calls[Len(calls)].op = "add_output"

\* C1 (as claimed): decoding what a built transaction serializes to succeeds
\* and returns that transaction, field for field.
C1_RoundTrip ==
    (how = "full" /\ dec # None) => (dec.tag = "Ok" /\ dec.val = tx)

\* The wire layout C5 states: CompactSize counts and lengths, u64 values.
CompactSize(n) == IF n < 253 THEN <<n>> ELSE <<253, n % 256, n \div 256>>

u64_to_le_bytes(v) ==
    <<v % 256, (v \div 256) % 256, (v \div 65536) % 256, (v \div 16777216) % 256,
      0, 0, 0, 0>>

InputLayout(i) ==
    i.previous_output.txid \o u32_to_le_bytes(i.previous_output.vout)
        \o CompactSize(Len(i.script_sig)) \o i.script_sig \o u32_to_le_bytes(i.sequence)

OutputLayout(o) ==
    u64_to_le_bytes(o.value) \o CompactSize(Len(o.script_pubkey)) \o o.script_pubkey

WireLayout(t) ==
    i32_to_le_bytes(t.version)
        \o CompactSize(Len(t.inputs))
        \o Concat([k \in 1..Len(t.inputs) |-> InputLayout(t.inputs[k])])
        \o CompactSize(Len(t.outputs))
        \o Concat([k \in 1..Len(t.outputs) |-> OutputLayout(t.outputs[k])])
        \o u32_to_le_bytes(t.lock_time)

\* C5 (as claimed): serialize emits version, the input count, every input,
\* the output count, every output and lock_time, in that order.
C5_WireLayout == (tx # None /\ wire # None) => wire = WireLayout(tx)

----------------------------------------------------------------------------
(* Claims about try_from (specification SpecCodec)                          *)

Buf10 == <<1, 0, 0, 0, 0, 0, 0, 0, 0, 0>>

\* C2 (as claimed): the 10-byte buffer 01000000 00 00 00000000 decodes to
\* version 1, no inputs, no outputs, lock_time 0, which serializes back to
\* the same 10 bytes.
C2_MinimalTransaction ==
    (data = Buf10 /\ dec # None) =>
        /\ dec.tag = "Ok"
        /\ dec.val = LegacyTransaction(1, <<>>, <<>>, U32(0, 0))
        /\ serialize(dec.val) = Buf10

\* C3: try_from on a strict prefix of what a transaction serializes to is an
\* error (not a transaction, not a panic), and so is try_from on any 9-byte
\* buffer.
C3_TruncationCaught ==
    dec # None =>
        /\ (how = "prefix" /\ Len(data) < Len(wire)) => dec.tag = "Err"
        /\ Len(data) = 9 => dec.tag = "Err"

C3_Witness ==
    /\ how = "prefix"
    /\ Len(wire) = 8
    /\ Len(data) = 7
    /\ tx.version = -1
    /\ Len(tx.inputs) = 2
    /\ dec = Err("InvalidTransaction")

\* C4 (as claimed): a buffer that decodes, followed by one more byte, does
\* not decode.
C4_TrailingByteRejected == how = "appended" => dec.tag = "Err"

\* C6 (as claimed): a decoded transaction has as many inputs as the input
\* count read from the buffer and as many outputs as the output count.
C6_CountsMatch ==
    (how = "raw" /\ dec.tag = "Ok") =>
        /\ U32(0, Len(dec.val.inputs)) = u32_from_le_bytes(SubSeq(data, 5, 8))
        /\ U32(0, Len(dec.val.outputs)) = u32_from_le_bytes(SubSeq(data, 9, 12))

Decoded(d) ==
    Ok(LegacyTransaction(i32_from_le_bytes(SubSeq(d, 1, 4)), <<>>, <<>>,
                         u32_from_le_bytes(SubSeq(d, 13, 16))))

\* C10 (as claimed): try_from returns InvalidTransaction exactly on buffers
\* shorter than 16 bytes and succeeds on every other buffer.
C10_SucceedsFrom16 ==
    dec # None =>
        IF Len(data) < 16 THEN dec = Err("InvalidTransaction") ELSE dec = Decoded(data)

\* C10 (amended): try_from returns InvalidTransaction exactly on buffers
\* shorter than 16 bytes; on a longer buffer it returns no error: it returns
\* version = bytes 0..3 (signed), lock_time = bytes 12..15 and empty lists
\* whatever the counts and the bytes after offset 16, unless a count is not
\* zero and reserving that capacity fails, and then it does not return.
C10_SucceedsOrAborts ==
    dec # None =>
        IF Len(data) < 16 THEN dec = Err("InvalidTransaction")
        ELSE \/ dec = Decoded(data)
             \/ /\ dec = Abort
                /\ alloc = "refused"
                /\ \/ SubSeq(data, 5, 8) # <<0, 0, 0, 0>>
                   \/ SubSeq(data, 9, 12) # <<0, 0, 0, 0>>

C10_Witness ==
    /\ Len(data) = 18
    /\ SubSeq(data, 1, 4) = <<255, 255, 255, 255>>
    /\ SubSeq(data, 5, 8) = <<1, 0, 0, 0>>
    /\ dec = Ok(LegacyTransaction(-1, <<>>, <<>>, U32(0, 1)))

----------------------------------------------------------------------------
(* Claims about the read helpers (specification SpecRead)                   *)

\* fewer than 4 bytes of d remain at off (off < 0 stands for 2^64 + off)
Short(d, off) == off < 0 \/ off + 4 > Len(d)

ShortOutcomes(d, off) ==
    IF off >= 0 \/ off + 4 < 0 THEN {Err("InvalidTransaction")}
    ELSE IF overflow_checks \/ off + 4 <= Len(d) THEN {Panic}
    ELSE {Err("InvalidTransaction")}

----------------------------------------------------------------------------
(* Claims about parse_cli_args (specification SpecCli)                      *)

\* C8: ["balance"] gives Balance; ["send", amount, address] with an amount
\* that parses as a u64 gives Send with that amount and that address; every
\* other argument list gives a ParseError.
C8_CliCommands ==
    cmd # None =>
        IF args = <<BALANCE>> THEN cmd = Ok(Balance)
        ELSE IF Len(args) = 3 /\ args[1] = SEND /\ parse_u64(args[2]).tag = "Ok"
             THEN cmd = Ok(Send(parse_u64(args[2]).val, args[3]))
        ELSE cmd.tag = "Err" /\ cmd.err.kind = "ParseError"

C8_Witness ==
    /\ args = <<SEND, <<"+", "7">>, <<"b", "c", "1", "q">>>>
    /\ cmd = Ok(Send(<<7>>, <<"b", "c", "1", "q">>))

============================================================================
